---- MODULE Spec2Model ----
(***************************************************************************)
(* The telemetry event pipeline of the AG Grid telemetry demo              *)
(* (src/src/App.tsx): the telemetry service with its rolling buffer of 50  *)
(* events, and the handlers of the App component that read the grid and    *)
(* send events through it.                                                 *)
(*                                                                         *)
(* Two environment abstractions are made and are stated here once:         *)
(*  - crypto.randomUUID() is modelled as a generator of fresh values: the  *)
(*    n-th draw of the session returns n.  The model says nothing about    *)
(*    the probability of a collision of two random UUIDs.                  *)
(*  - new Date() reads a wall clock that never runs backwards; it advances *)
(*    only by the Tick action.                                             *)
(***************************************************************************)
EXTENDS Integers, Sequences, FiniteSets, TLC

VARIABLES
    events,            \* telemetry.events, the live buffer (newest first)
    now,               \* the wall clock, in ms since the start of the session
    ticks,             \* history: number of steps the clock has made
    uuids,             \* number of UUIDs drawn from crypto.randomUUID so far
    emitted,           \* history: every event send has constructed, oldest first
    sinceClear,        \* history: number of sends since construction or the last clear
    sent,              \* history: number of sends made by the steps of the behaviour
    last,              \* history: the operation that ran last, its arguments and result
    pre,               \* history: telemetry.events before the last operation
    gridApi,           \* App state gridApi: "null" or "api"
    telemetryEvents,   \* App state telemetryEvents: an array handle
    stats,             \* App state stats
    scrollTimeoutRef,  \* scrollTimeoutRef.current: 0 (null) or a timer id
    timers,            \* the armed timeouts of the scroll handler
    timerIds,          \* number of timer ids handed out by setTimeout so far
    rowData,           \* the rows given to the grid
    filterModel,       \* the grid: the active filter model
    absent,            \* the grid: displayed indices whose row node carries no data
    firstRow,          \* the grid: getFirstDisplayedRowIndex()
    lastRow,           \* the grid: getLastDisplayedRowIndex()
    selected,          \* the grid: ids of the selected rows, in the grid's order
    lastChange,        \* history: the last selection change the grid reported, and the
                       \* number of selected rows, the selected-rows statistic and the
                       \* number of events sent before it
    held,              \* a snapshot handle a consumer (the panel) keeps
    heldAt,            \* history: what held showed when the consumer got it
    newestEventId,     \* TelemetryPanel state newestEventId: 0 (null) or an event id
    prevEventsLengthRef, \* TelemetryPanel prevEventsLengthRef.current
    panelTimers,       \* the armed timeouts of the panel's effect
    mounted,           \* the App component is mounted (the grid with it)
    scrollLog          \* history: the scroll events onBodyScroll has armed a timer for,
                       \* with the time and the displayed range of each

vars == <<events, now, ticks, uuids, emitted, sinceClear, sent, last, pre,
          gridApi, telemetryEvents, stats, scrollTimeoutRef, timers, timerIds,
          rowData, filterModel, absent, firstRow, lastRow, selected, lastChange,
          held, heldAt, newestEventId, prevEventsLengthRef, panelTimers,
          mounted, scrollLog>>

serviceVars == <<events, uuids, emitted, sinceClear, sent>>
histVars == <<last, pre>>
appVars == <<gridApi, telemetryEvents, stats, scrollTimeoutRef, timers, timerIds>>
gridVars == <<rowData, filterModel, absent, firstRow, lastRow, selected, lastChange>>
heldVars == <<held, heldAt, newestEventId, prevEventsLengthRef, panelTimers>>
lifeVars == <<mounted, scrollLog>>

----------------------------------------------------------------------------
(* Program constants *)

\* if (events.length > 50) events.pop()
MaxEvents == 50

\* setTimeout(..., 300) of the scroll handler
DebounceMs == 300

\* the time the panel shows an event as new
NewStateMs == 2500

----------------------------------------------------------------------------
(* Bounds of the model *)

\* sends made by the actions of a behaviour (the prefilled ones not counted)
MaxSends == 2

\* steps the clock makes in a behaviour
MaxTicks == 2

\* timers the scroll handler arms in a behaviour
MaxTimers == 2

\* steps the clock makes in a behaviour of the App
MaxAppTicks == 1

\* timers the scroll handler arms in a behaviour of the App with every handler
MaxAppTimers == 1

\* events the handlers of the App send in a behaviour
MaxAppSends == 2

----------------------------------------------------------------------------
(* Small helpers *)

Min(a, b) == IF a < b THEN a ELSE b

Range(s) == {s[i] : i \in DOMAIN s}

RECURSIVE SumSeq(_)
SumSeq(s) == IF s = <<>> THEN 0 ELSE Head(s) + SumSeq(Tail(s))

----------------------------------------------------------------------------
(* The telemetry service: createTelemetryService *)

\* the digits of the natural number n, without leading zeros
RECURSIVE Digits(_)
Digits(n) == IF n < 10 THEN <<n>> ELSE Append(Digits(n \div 10), n % 10)

\* the mutant of toISOString: the milliseconds as an unpadded decimal string
toISOStringUnpadded(t) == Digits(t)

\* Date.prototype.toISOString for an instant t ms into the session, as the
\* digits of the fields that vary within the first hour, most significant
\* first: mm, ss, sss of "....-..-..T..:mm:ss.sssZ".  Every field has a fixed
\* width and seconds wrap at 60, as in the string.
toISOString(t) ==
    LET mm == (t \div 60000) % 60
        ss == (t \div 1000) % 60
        ms == t % 1000
    IN  <<mm \div 10, mm % 10, ss \div 10, ss % 10,
          ms \div 100, (ms \div 10) % 10, ms % 10>>

\* the order of two ISO strings as strings (character by character)
RECURSIVE StrLeq(_, _)
StrLeq(a, b) ==
    IF a = <<>> THEN TRUE
    ELSE IF b = <<>> THEN FALSE
    ELSE IF Head(a) # Head(b) THEN Head(a) < Head(b)
    ELSE StrLeq(Tail(a), Tail(b))

\* crypto.randomUUID(): the value of the n-th draw (see the module comment)
randomUUID(n) == n

\* the mutant of TelemetryEvent: the id is taken from the clock
TelemetryEventIdFromClock(uuid, eventType, timestamp, data) ==
    [id |-> timestamp[7] + 10 * timestamp[6] + 100 * timestamp[5],
     eventType |-> eventType, timestamp |-> timestamp, data |-> data]

\* const event: TelemetryEvent = { id, eventType, timestamp, data }
TelemetryEvent(uuid, eventType, timestamp, data) ==
    [id |-> uuid, eventType |-> eventType, timestamp |-> timestamp, data |-> data]

\* the mutant of unshift: Array.prototype.push
unshiftAsPush(evs, e) == Append(evs, e)

\* events.unshift(event)
unshift(evs, e) == <<e>> \o evs

\* the mutant of pop: Array.prototype.shift
popAsShift(evs) == Tail(evs)

\* events.pop(): removes the last element
pop(evs) == SubSeq(evs, 1, Len(evs) - 1)

\* the mutant of evict: the bound is never enforced
evictNever(evs) == evs

\* the mutant of evict: the oldest event is dropped one event too early
evictOffByOne(evs) == IF Len(evs) >= MaxEvents THEN pop(evs) ELSE evs

\* if (events.length > 50) { events.pop(); }
evict(evs) == IF Len(evs) > MaxEvents THEN pop(evs) ELSE evs

\* the mutant of send: the event is put into the buffer twice
sendTwice(evs, uuid, t, eventType, data) ==
    LET event == TelemetryEvent(uuid, eventType, toISOString(t), data)
    IN  [events |-> evict(unshift(evict(unshift(evs, event)), event)), event |-> event]

\* telemetry.send(eventType, data) on the buffer evs, with the uuid and the
\* instant it draws: the buffer it leaves and the event it returns
send(evs, uuid, t, eventType, data) ==
    LET event == TelemetryEvent(uuid, eventType, toISOString(t), data)
    IN  [events |-> evict(unshift(evs, event)), event |-> event]

\* the mutant of clear: only the oldest event is dropped
clearAsPop(evs) == IF evs = <<>> THEN evs ELSE SubSeq(evs, 1, Len(evs) - 1)

\* telemetry.clear(): events.length = 0
clear(evs) == <<>>

\* the six event types the handlers send
EventTypes ==
    {"grid_initialized", "visible_rows_extracted", "selected_rows_extracted",
     "full_grid_state_extracted", "row_selected", "grid_scrolled"}

\* no event: the result of an operation that returns none
NoEvent == [id |-> 0, eventType |-> "none", timestamp |-> <<>>, data |-> [none |-> TRUE]]

\* the record of an operation in the history variable last
Op(name, eventType, data, ret, threw) ==
    [op |-> name, eventType |-> eventType, data |-> data, ret |-> ret, threw |-> threw]

NoOp == Op("none", "none", [none |-> TRUE], NoEvent, FALSE)

----------------------------------------------------------------------------
(* The rows: RowData and generateSampleData *)

Row(id, product, category, price, quantity, inStock, lastUpdated) ==
    [id |-> id, product |-> product, category |-> category, price |-> price,
     quantity |-> quantity, inStock |-> inStock, lastUpdated |-> lastUpdated]

\* (the product names are written without their inch marks)
generateSampleData ==
    <<
      Row(1, "MacBook Pro 16", "Electronics", 2499, 12, TRUE, "2024-01-15"),
      Row(2, "Logitech MX Master 3", "Electronics", 99, 45, TRUE, "2024-01-14"),
      Row(3, "Mechanical Keyboard", "Electronics", 149, 28, TRUE, "2024-01-13"),
      Row(4, "Dell UltraSharp 27", "Electronics", 549, 8, TRUE, "2024-01-12"),
      Row(5, "Herman Miller Aeron", "Furniture", 1395, 5, FALSE, "2024-01-11"),
      Row(6, "Standing Desk Pro", "Furniture", 799, 15, TRUE, "2024-01-10"),
      Row(7, "Moleskine Notebook", "Stationery", 25, 120, TRUE, "2024-01-09"),
      Row(8, "Premium Pen Set", "Stationery", 45, 67, TRUE, "2024-01-08"),
      Row(9, "USB-C Hub 7-in-1", "Electronics", 79, 89, TRUE, "2024-01-07"),
      Row(10, "Logitech C920 Webcam", "Electronics", 69, 34, FALSE, "2024-01-06"),
      Row(11, "AirPods Pro 2", "Electronics", 249, 56, TRUE, "2024-01-05"),
      Row(12, "iPad Pro 12.9", "Electronics", 1099, 19, TRUE, "2024-01-04"),
      Row(13, "Desk Lamp LED", "Furniture", 89, 42, TRUE, "2024-01-03"),
      Row(14, "Filing Cabinet", "Furniture", 199, 11, FALSE, "2024-01-02"),
      Row(15, "Whiteboard 48x36", "Office", 129, 7, TRUE, "2024-01-01")
    >>

----------------------------------------------------------------------------
(* The grid (AG Grid, an external collaborator) as the handlers see it *)

\* the filter models the user sets in a behaviour: none, one that keeps two
\* rows, one that keeps no row
FilterModels ==
    { {},
      {[colId |-> "category", filterType |-> "text", type |-> "equals", filter |-> "Stationery"]},
      {[colId |-> "category", filterType |-> "text", type |-> "equals", filter |-> "Toys"]} }

passesFilter(r, fm) == \A f \in fm : r[f.colId] = f.filter

\* the rows the grid displays under the filter model fm, in displayed order
displayedRows(fm) == SelectSeq(rowData, LAMBDA r : passesFilter(r, fm))

getDisplayedRowCount == Len(displayedRows(filterModel))

getFirstDisplayedRowIndex == firstRow

getLastDisplayedRowIndex == lastRow

\* gridApi.getDisplayedRowAtIndex(i)?.data, as a list of no or one row: no row
\* when there is no node at i or the node carries no data
getDisplayedRowAtIndex(i) ==
    IF i \in 0..(getDisplayedRowCount - 1) /\ i \notin absent
    THEN <<displayedRows(filterModel)[i + 1]>>
    ELSE <<>>

rowById(id) == CHOOSE r \in Range(rowData) : r.id = id

\* gridApi.getSelectedRows()
getSelectedRows == [i \in DOMAIN selected |-> rowById(selected[i])]

\* the mutant of forEachNode: only the rows that pass the filter
forEachNodeAfterFilter == displayedRows(filterModel)

\* gridApi.forEachNode(node => { if (node.data) allData.push(node.data) }):
\* every row node of the grid, displayed or not
forEachNode == rowData

getFilterModel == filterModel

\* the columns of colDefs: field and width (200 stands for a flex width)
colDefs ==
    << [field |-> "id", width |-> 80], [field |-> "product", width |-> 200],
       [field |-> "category", width |-> 200], [field |-> "price", width |-> 200],
       [field |-> "quantity", width |-> 100], [field |-> "inStock", width |-> 120],
       [field |-> "lastUpdated", width |-> 120] >>

\* gridApi.getColumnState(): no column is hidden, sorted or pinned
getColumnState ==
    [i \in DOMAIN colDefs |->
        [colId |-> colDefs[i].field, width |-> colDefs[i].width, hide |-> FALSE,
         sort |-> "null", sortIndex |-> "null", pinned |-> "null",
         flex |-> "null", rowGroup |-> FALSE]]

\* the viewports the grid can show of n displayed rows: none of no rows
Viewports(n) ==
    IF n = 0 THEN {<<0, -1>>}
    ELSE {v \in {<<0, 4>>, <<3, 7>>, <<0, n - 1>>} : v[2] < n}

----------------------------------------------------------------------------
(* Array handles: a consumer's array is the live buffer itself or an array  *)
(* of its own, which no code of the program writes to                       *)

\* the mutant of spread: the live array is handed out
spreadAsAlias(evs) == [live |-> TRUE, arr |-> <<>>]

\* [...telemetry.events]: a new array with the elements of evs
spread(evs) == [live |-> FALSE, arr |-> evs]

\* what a reader of the handle h sees now
Contents(h) == IF h.live THEN events ELSE h.arr

----------------------------------------------------------------------------
(* Initial states *)

\* the k-th event of a run of sends of one scroll event each, all within the
\* first millisecond
PrefillEvent(k) ==
    TelemetryEvent(randomUUID(k), "grid_scrolled", toISOString(0), [tag |-> "prefill"])

\* the state of the service after n <= MaxEvents such sends: the buffer, newest
\* first, and the events constructed, oldest first
Prefilled(n) ==
    [events |-> [i \in 1..n |-> PrefillEvent(n - i + 1)],
     emitted |-> [i \in 1..n |-> PrefillEvent(i)]]

\* Prefilled is what send makes: one more send of the run on Prefilled(n)
\* leaves Prefilled(n + 1)
PrefilledBySend ==
    \A n \in 0..(MaxEvents - 1) :
        LET r == send(Prefilled(n).events, randomUUID(n + 1), 0, "grid_scrolled",
                      [tag |-> "prefill"])
        IN  /\ r.events = Prefilled(n + 1).events
            /\ Append(Prefilled(n).emitted, r.event) = Prefilled(n + 1).emitted

InitGrid ==
    /\ rowData = generateSampleData
    /\ filterModel = {}
    /\ absent = {}
    /\ firstRow = 0
    /\ lastRow = 4
    /\ selected = <<>>
    /\ lastChange = [id |-> 0, isSelected |-> FALSE, count |-> 0, selectedRows |-> 0, emitted |-> 0]

InitApp ==
    /\ gridApi = "null"
    /\ telemetryEvents = [live |-> FALSE, arr |-> <<>>]
    /\ stats = [totalEvents |-> 0, visibleRows |-> 0, selectedRows |-> 0]
    /\ scrollTimeoutRef = 0
    /\ timers = {}
    /\ timerIds = 0
    /\ held = [live |-> FALSE, arr |-> <<>>]
    /\ heldAt = <<>>
    /\ newestEventId = 0
    /\ prevEventsLengthRef = 0
    /\ panelTimers = {}
    /\ mounted = TRUE
    /\ scrollLog = <<>>

InitHist ==
    /\ sent = 0
    /\ ticks = 0
    /\ last = NoOp
    /\ pre = events

\* the state after construction
Init ==
    /\ events = <<>>
    /\ emitted = <<>>
    /\ uuids = 0
    /\ sinceClear = 0
    /\ now = 0
    /\ InitApp /\ InitGrid /\ InitHist

\* the service after construction, after MaxEvents - 1 sends, or after
\* MaxEvents sends
InitService ==
    /\ \E n \in {0, MaxEvents - 1, MaxEvents} :
          /\ events = Prefilled(n).events
          /\ emitted = Prefilled(n).emitted
          /\ uuids = n
          /\ sinceClear = n
    /\ now = 0
    /\ InitApp /\ InitGrid /\ InitHist

----------------------------------------------------------------------------
(* The clock *)

\* time passes: d ms
Tick(d) ==
    /\ ticks < MaxTicks
    /\ now' = now + d
    /\ ticks' = ticks + 1
    /\ UNCHANGED <<serviceVars, histVars, appVars, gridVars, heldVars, lifeVars>>

----------------------------------------------------------------------------
(* The service called directly *)

\* the arguments of the direct calls
ServiceTypes == {"row_selected", "grid_scrolled"}

ServiceData == {[tag |-> "a"], [tag |-> "b"]}

\* telemetry.send(eventType, data)
ServiceSend(eventType, data) ==
    /\ sent < MaxSends
    /\ LET r == send(events, randomUUID(uuids + 1), now, eventType, data)
       IN  /\ events' = r.events
           /\ emitted' = Append(emitted, r.event)
           /\ last' = Op("send", eventType, data, r.event, FALSE)
    /\ uuids' = uuids + 1
    /\ sinceClear' = sinceClear + 1
    /\ sent' = sent + 1
    /\ pre' = events
    /\ UNCHANGED <<now, ticks, appVars, gridVars, heldVars, lifeVars>>

\* telemetry.clear()
ServiceClear ==
    /\ events' = clear(events)
    /\ sinceClear' = 0
    /\ last' = Op("clear", "none", [none |-> TRUE], NoEvent, FALSE)
    /\ pre' = events
    /\ UNCHANGED <<now, ticks, uuids, emitted, sent, appVars, gridVars, heldVars, lifeVars>>

NextService ==
    \/ \E eventType \in ServiceTypes, data \in ServiceData : ServiceSend(eventType, data)
    \/ ServiceClear
    \/ \E d \in {50, 300} : Tick(d)

SpecService == InitService /\ [][NextService]_vars

----------------------------------------------------------------------------
(* The App component: sendTelemetryEvent and the handlers *)

\* an operation returns without a result, having changed nothing
Return(name) ==
    /\ last' = Op(name, "none", [none |-> TRUE], NoEvent, FALSE)
    /\ pre' = events
    /\ UNCHANGED <<now, ticks, serviceVars, appVars, gridVars, heldVars, lifeVars>>

\* an operation ends in an uncaught TypeError (a method of null is called),
\* having changed nothing
Throw(name) ==
    /\ last' = Op(name, "none", [none |-> TRUE], NoEvent, TRUE)
    /\ pre' = events
    /\ UNCHANGED <<now, ticks, serviceVars, appVars, gridVars, heldVars, lifeVars>>

\* the mutant of sendTelemetryEvent: totalEvents counts the events sent
sendTelemetryEventCounting(name, eventType, data, st) ==
    /\ sent < MaxAppSends
    /\ LET r == send(events, randomUUID(uuids + 1), now, eventType, data)
       IN  /\ events' = r.events
           /\ emitted' = Append(emitted, r.event)
           /\ telemetryEvents' = spread(r.events)
           /\ stats' = [st EXCEPT !.totalEvents = stats.totalEvents + 1]
           /\ last' = Op(name, eventType, data, r.event, FALSE)
    /\ uuids' = uuids + 1
    /\ sinceClear' = sinceClear + 1
    /\ sent' = sent + 1
    /\ pre' = events
    /\ UNCHANGED <<now, ticks, heldVars, lifeVars>>

\* sendTelemetryEvent(eventType, data), called by the operation name when
\* its earlier setStats calls have made the stats st
sendTelemetryEvent(name, eventType, data, st) ==
    /\ sent < MaxAppSends
    /\ LET r == send(events, randomUUID(uuids + 1), now, eventType, data)
       IN  /\ events' = r.events
           /\ emitted' = Append(emitted, r.event)
           /\ telemetryEvents' = spread(r.events)
           /\ stats' = [st EXCEPT !.totalEvents = Len(r.events)]
           /\ last' = Op(name, eventType, data, r.event, FALSE)
    /\ uuids' = uuids + 1
    /\ sinceClear' = sinceClear + 1
    /\ sent' = sent + 1
    /\ pre' = events
    /\ UNCHANGED <<now, ticks, heldVars, lifeVars>>

\* the mutant of gridAvailable: the guard is missing
gridAvailableAlways(api) == TRUE

\* if (!gridApi) return;
gridAvailable(api) == api # "null"

\* the mutant of onGridReady: the grid_initialized event is not sent
onGridReadySilent ==
    /\ gridApi = "null"
    /\ gridApi' = "api"
    /\ last' = Op("onGridReady", "none", [none |-> TRUE], NoEvent, FALSE)
    /\ pre' = events
    /\ UNCHANGED <<now, ticks, serviceVars, telemetryEvents, stats, heldVars, lifeVars>>
    /\ UNCHANGED <<scrollTimeoutRef, timers, timerIds, gridVars>>

\* the mutant of onGridReady: setGridApi(params.api) is missing
onGridReadyWithoutApi ==
    /\ gridApi = "null"
    /\ sendTelemetryEvent("onGridReady", "grid_initialized",
          [totalRows |-> Len(rowData),
           columns |-> [i \in DOMAIN colDefs |-> colDefs[i].field],
           gridVersion |-> "ag-grid-community"],
          stats)
    /\ UNCHANGED <<gridApi, scrollTimeoutRef, timers, timerIds, gridVars>>

\* onGridReady(params): the grid is mounted and ready
onGridReady ==
    /\ gridApi = "null"
    /\ gridApi' = "api"
    /\ sendTelemetryEvent("onGridReady", "grid_initialized",
          [totalRows |-> Len(rowData),
           columns |-> [i \in DOMAIN colDefs |-> colDefs[i].field],
           gridVersion |-> "ag-grid-community"],
          stats)
    /\ UNCHANGED <<scrollTimeoutRef, timers, timerIds, gridVars>>

\* the mutant of totalValue: the quantity is left out of the sum
totalValueOfPrices(rows) == SumSeq([i \in DOMAIN rows |-> rows[i].price])

\* sum + r.price * r.quantity over the rows, from 0
totalValue(rows) == SumSeq([i \in DOMAIN rows |-> rows[i].price * rows[i].quantity])

\* the mutant of visibleLoop: the last displayed row is left out
RECURSIVE visibleLoopExclusive(_, _)
visibleLoopExclusive(i, lastIndex) ==
    IF i >= lastIndex THEN <<>>
    ELSE getDisplayedRowAtIndex(i) \o visibleLoopExclusive(i + 1, lastIndex)

\* for (let i = firstRow; i <= lastRow; i++) { ... visibleRows.push(rowNode.data) }
RECURSIVE visibleLoop(_, _)
visibleLoop(i, lastIndex) ==
    IF i > lastIndex THEN <<>>
    ELSE getDisplayedRowAtIndex(i) \o visibleLoop(i + 1, lastIndex)

\* the mutant of extractVisibleRowsData: nothing is sent of an empty list
extractVisibleRowsDataSkipEmpty ==
    IF ~gridAvailable(gridApi) THEN Return("extractVisibleRowsData")
    ELSE LET visibleRows == visibleLoop(getFirstDisplayedRowIndex, getLastDisplayedRowIndex)
         IN  IF visibleRows = <<>> THEN Return("extractVisibleRowsData")
             ELSE /\ sendTelemetryEvent("extractVisibleRowsData", "visible_rows_extracted",
                        [viewport |-> [firstRowIndex |-> getFirstDisplayedRowIndex,
                                       lastRowIndex |-> getLastDisplayedRowIndex,
                                       visibleRowCount |-> Len(visibleRows)],
                         visibleRows |-> visibleRows,
                         visibleProductIds |-> [i \in DOMAIN visibleRows |-> visibleRows[i].id],
                         totalValue |-> totalValue(visibleRows)],
                        [stats EXCEPT !.visibleRows = Len(visibleRows)])
                  /\ UNCHANGED <<gridApi, scrollTimeoutRef, timers, timerIds, gridVars>>

\* extractVisibleRowsData()
extractVisibleRowsData ==
    IF ~gridAvailable(gridApi) THEN Return("extractVisibleRowsData")
    ELSE IF gridApi = "null" THEN Throw("extractVisibleRowsData")
    ELSE LET visibleRows == visibleLoop(getFirstDisplayedRowIndex, getLastDisplayedRowIndex)
         IN  /\ sendTelemetryEvent("extractVisibleRowsData", "visible_rows_extracted",
                   [viewport |-> [firstRowIndex |-> getFirstDisplayedRowIndex,
                                  lastRowIndex |-> getLastDisplayedRowIndex,
                                  visibleRowCount |-> Len(visibleRows)],
                    visibleRows |-> visibleRows,
                    visibleProductIds |-> [i \in DOMAIN visibleRows |-> visibleRows[i].id],
                    totalValue |-> totalValue(visibleRows)],
                   [stats EXCEPT !.visibleRows = Len(visibleRows)])
             /\ UNCHANGED <<gridApi, scrollTimeoutRef, timers, timerIds, gridVars>>

\* extractSelectedRowsData()
extractSelectedRowsData ==
    IF ~gridAvailable(gridApi) THEN Return("extractSelectedRowsData")
    ELSE IF gridApi = "null" THEN Throw("extractSelectedRowsData")
    ELSE LET selectedRows == getSelectedRows
         IN  /\ sendTelemetryEvent("extractSelectedRowsData", "selected_rows_extracted",
                   [selectedCount |-> Len(selectedRows),
                    selectedRows |-> selectedRows,
                    selectedIds |-> [i \in DOMAIN selectedRows |-> selectedRows[i].id],
                    totalSelectedValue |-> totalValue(selectedRows)],
                   [stats EXCEPT !.selectedRows = Len(selectedRows)])
             /\ UNCHANGED <<gridApi, scrollTimeoutRef, timers, timerIds, gridVars>>

\* a / b of two JavaScript numbers that hold natural numbers: the quotient
\* as a fraction, NaN for 0 / 0, Infinity for a / 0
divide(a, b) ==
    IF b # 0 THEN [kind |-> "number", num |-> a, den |-> b]
    ELSE IF a = 0 THEN [kind |-> "NaN", num |-> 0, den |-> 0]
    ELSE [kind |-> "Infinity", num |-> a, den |-> 0]

\* allData.filter((r) => r.inStock)
inStockRows(allData) == SelectSeq(allData, LAMBDA r : r.inStock)

\* the mutant of outOfStockRows: the rows of quantity 0
outOfStockRowsByQuantity(allData) == SelectSeq(allData, LAMBDA r : r.quantity = 0)

\* allData.filter((r) => !r.inStock)
outOfStockRows(allData) == SelectSeq(allData, LAMBDA r : ~r.inStock)

\* extractAllGridData()
extractAllGridData ==
    IF ~gridAvailable(gridApi) THEN Return("extractAllGridData")
    ELSE IF gridApi = "null" THEN Throw("extractAllGridData")
    ELSE LET allData == forEachNode
             columnState == getColumnState
         IN  /\ sendTelemetryEvent("extractAllGridData", "full_grid_state_extracted",
                   [gridMetadata |-> [totalRows |-> Len(allData),
                                      displayedRows |-> getDisplayedRowCount,
                                      selectedRows |-> Len(getSelectedRows)],
                    allData |-> allData,
                    columnState |->
                        [i \in DOMAIN columnState |->
                            [colId |-> columnState[i].colId, width |-> columnState[i].width,
                             hide |-> columnState[i].hide, sort |-> columnState[i].sort,
                             sortIndex |-> columnState[i].sortIndex,
                             pinned |-> columnState[i].pinned]],
                    activeFilters |-> getFilterModel,
                    viewport |-> [firstRow |-> getFirstDisplayedRowIndex,
                                  lastRow |-> getLastDisplayedRowIndex],
                    aggregations |->
                        [totalInventoryValue |-> totalValue(allData),
                         avgPrice |-> divide(SumSeq([i \in DOMAIN allData |-> allData[i].price]),
                                             Len(allData)),
                         inStockCount |-> Len(inStockRows(allData)),
                         outOfStockCount |-> Len(outOfStockRows(allData))]],
                   stats)
             /\ UNCHANGED <<gridApi, scrollTimeoutRef, timers, timerIds, gridVars>>

\* the mutant of onRowSelected: the statistic is refreshed only when the row
\* is selected
onRowSelectedRefreshOnSelect(id, isSelected, sel) ==
    LET st == IF gridApi # "null"
              THEN [stats EXCEPT !.selectedRows = Len(sel)]
              ELSE stats
    IN  IF isSelected
        THEN sendTelemetryEvent("onRowSelected", "row_selected",
                [rowId |-> id, rowData |-> rowById(id), selectionSource |-> "user_click"],
                st)
        ELSE /\ last' = Op("onRowSelected", "none", [none |-> TRUE], NoEvent, FALSE)
             /\ pre' = events
             /\ UNCHANGED <<now, ticks, serviceVars, telemetryEvents, stats, heldVars, lifeVars>>

\* the mutant of emitsRowSelected: the deselection is reported as well
emitsRowSelectedAlways(isSelected) == TRUE

\* if (event.node.isSelected() && event.data), for a row node with data
emitsRowSelected(isSelected) == isSelected

\* onRowSelected(event) for the row node of id, which isSelected() or not,
\* the grid reporting the selection sel
onRowSelected(id, isSelected, sel) ==
    LET st == IF gridApi # "null"
              THEN [stats EXCEPT !.selectedRows = Len(sel)]
              ELSE stats
    IN  IF emitsRowSelected(isSelected)
        THEN sendTelemetryEvent("onRowSelected", "row_selected",
                [rowId |-> id, rowData |-> rowById(id), selectionSource |-> "user_click"],
                st)
        ELSE /\ stats' = st
             /\ last' = Op("onRowSelected", "none", [none |-> TRUE], NoEvent, FALSE)
             /\ pre' = events
             /\ UNCHANGED <<now, ticks, serviceVars, telemetryEvents, heldVars, lifeVars>>

\* the rows the user selects and deselects in a behaviour
SelectableIds == {1, 5}

\* the sequence s without its elements equal to x
Without(s, x) == SelectSeq(s, LAMBDA y : y # x)

\* the user clicks the checkbox of the row of id: the grid changes the
\* selection of the row and reports it to onRowSelected
RowSelectionChange(id) ==
    /\ gridApi = "api"
    /\ LET isSelected == id \notin Range(selected)
           sel == IF isSelected THEN Append(selected, id) ELSE Without(selected, id)
       IN  /\ selected' = sel
           /\ lastChange' = [id |-> id, isSelected |-> isSelected, count |-> Len(selected),
                             selectedRows |-> stats.selectedRows, emitted |-> Len(emitted)]
           /\ onRowSelected(id, isSelected, sel)
    /\ UNCHANGED <<gridApi, scrollTimeoutRef, timers, timerIds,
                   rowData, filterModel, absent, firstRow, lastRow>>

\* the body scroll events the grid reports in a behaviour
ScrollEvents ==
    { [direction |-> "vertical", top |-> 144, left |-> 0],
      [direction |-> "horizontal", top |-> 0, left |-> 80] }

\* the mutant of clearTimeout: the armed timeout is left armed
clearTimeoutNever(ts, id) == ts

\* clearTimeout(id) on the armed timeouts ts: a no-op when id is not armed
clearTimeout(ts, id) == {t \in ts : t.id # id}

\* the mutant of setTimeoutDue: the callback is due at once
setTimeoutDueAtOnce(t, delay) == t

\* setTimeout(callback, delay) called at time t: the time from which the
\* callback can run
setTimeoutDue(t, delay) == t + delay

\* the mutant of gridScrolledData: the last displayed row is not counted
gridScrolledDataExclusive(event, first, lastIndex) ==
    [scrollDirection |-> event.direction,
     viewport |-> [firstRow |-> first, lastRow |-> lastIndex,
                   visibleRowCount |-> lastIndex - first],
     scrollPosition |-> [top |-> event.top, left |-> event.left]]

\* the payload of grid_scrolled of the scroll event event and the displayed
\* range first..lastIndex
gridScrolledData(event, first, lastIndex) ==
    [scrollDirection |-> event.direction,
     viewport |-> [firstRow |-> first, lastRow |-> lastIndex,
                   visibleRowCount |-> lastIndex - first + 1],
     scrollPosition |-> [top |-> event.top, left |-> event.left]]

\* onBodyScroll(event): the timeout of an earlier call is cleared and a new
\* one is armed, whose callback keeps the gridApi and the event of this call
onBodyScroll(event) ==
    IF ~gridAvailable(gridApi) THEN Return("onBodyScroll")
    ELSE /\ timerIds < MaxTimers
         /\ LET armed == IF scrollTimeoutRef # 0
                         THEN clearTimeout(timers, scrollTimeoutRef)
                         ELSE timers
                id == timerIds + 1
            IN  /\ timers' = armed \cup {[id |-> id, due |-> setTimeoutDue(now, DebounceMs),
                                          gridApi |-> gridApi, event |-> event]}
                /\ scrollTimeoutRef' = id
                /\ timerIds' = id
         /\ last' = Op("onBodyScroll", "none", [none |-> TRUE], NoEvent, FALSE)
         /\ pre' = events
         /\ scrollLog' = Append(scrollLog, [at |-> now, event |-> event,
                                             firstRow |-> firstRow, lastRow |-> lastRow])
         /\ UNCHANGED <<now, ticks, serviceVars, gridApi, telemetryEvents, stats,
                        gridVars, heldVars, mounted>>

\* the mutant of scrollTimeout: the callback is armed with setInterval and
\* stays armed when it has run
scrollTimeoutRepeating(t) ==
    /\ t \in timers
    /\ now >= t.due
    /\ timers' = (timers \ {t}) \cup {[t EXCEPT !.due = now + DebounceMs]}
    /\ IF t.gridApi = "null"
       THEN /\ last' = Op("scrollTimeout", "none", [none |-> TRUE], NoEvent, TRUE)
            /\ pre' = events
            /\ UNCHANGED <<now, ticks, serviceVars, telemetryEvents, stats, heldVars, lifeVars>>
       ELSE LET first == getFirstDisplayedRowIndex
                lastIndex == getLastDisplayedRowIndex
            IN  sendTelemetryEvent("scrollTimeout", "grid_scrolled",
                   gridScrolledData(t.event, first, lastIndex), stats)
    /\ UNCHANGED <<gridApi, scrollTimeoutRef, timerIds, gridVars>>

\* the callback of the timeout t runs, its delay having passed
scrollTimeout(t) ==
    /\ t \in timers
    /\ now >= t.due
    /\ timers' = timers \ {t}
    /\ IF t.gridApi = "null"
       THEN /\ last' = Op("scrollTimeout", "none", [none |-> TRUE], NoEvent, TRUE)
            /\ pre' = events
            /\ UNCHANGED <<now, ticks, serviceVars, telemetryEvents, stats, heldVars, lifeVars>>
       ELSE LET first == getFirstDisplayedRowIndex
                lastIndex == getLastDisplayedRowIndex
            IN  sendTelemetryEvent("scrollTimeout", "grid_scrolled",
                   gridScrolledData(t.event, first, lastIndex), stats)
    /\ UNCHANGED <<gridApi, scrollTimeoutRef, timerIds, gridVars>>

\* the App component is unmounted, the grid with it: React drops the state
\* and the handlers, the grid is destroyed; no effect of App cancels the
\* timeout of the scroll handler, which stays armed
Unmount ==
    /\ mounted
    /\ mounted' = FALSE
    /\ UNCHANGED <<now, ticks, serviceVars, histVars, appVars, gridVars, heldVars, scrollLog>>

\* what the destroyed grid does when a method of its api is called: it
\* returns undefined, or the call throws
DestroyedApiOutcomes == {"undefined", "throws"}

\* the callback of the timeout t runs after the App was unmounted: the api
\* it kept is the one of a destroyed grid; the state setters of the
\* unmounted component do nothing, telemetry.send works as ever
scrollTimeoutDestroyed(t, outcome) ==
    /\ ~mounted
    /\ t \in timers
    /\ now >= t.due
    /\ timers' = timers \ {t}
    /\ IF t.gridApi = "null" \/ outcome = "throws"
       THEN /\ last' = Op("scrollTimeout", "none", [none |-> TRUE], NoEvent, TRUE)
            /\ pre' = events
            /\ UNCHANGED serviceVars
       ELSE /\ sent < MaxAppSends
            /\ LET data == [scrollDirection |-> t.event.direction,
                            viewport |-> [indices |-> "undefined", visibleRowCount |-> "NaN"],
                            scrollPosition |-> [top |-> t.event.top, left |-> t.event.left]]
                    r == send(events, randomUUID(uuids + 1), now, "grid_scrolled", data)
               IN  /\ events' = r.events
                   /\ emitted' = Append(emitted, r.event)
                   /\ last' = Op("scrollTimeout", "grid_scrolled", data, r.event, FALSE)
            /\ uuids' = uuids + 1
            /\ sinceClear' = sinceClear + 1
            /\ sent' = sent + 1
            /\ pre' = events
    /\ UNCHANGED <<now, ticks, gridApi, telemetryEvents, stats, scrollTimeoutRef, timerIds,
                   gridVars, heldVars, lifeVars>>

\* the mutant of clearTelemetry: the pending timeout of the scroll handler is
\* cancelled as well
clearTelemetryCancelling ==
    /\ events' = clear(events)
    /\ sinceClear' = 0
    /\ telemetryEvents' = [live |-> FALSE, arr |-> <<>>]
    /\ stats' = [totalEvents |-> 0, visibleRows |-> 0, selectedRows |-> 0]
    /\ timers' = clearTimeout(timers, scrollTimeoutRef)
    /\ scrollTimeoutRef' = 0
    /\ last' = Op("clearTelemetry", "none", [none |-> TRUE], NoEvent, FALSE)
    /\ pre' = events
    /\ UNCHANGED <<now, ticks, uuids, emitted, sent, gridApi,
                   timerIds, gridVars, heldVars, lifeVars>>

\* the mutant of clearTelemetry: the selected-rows statistic is kept
clearTelemetryKeepingSelected ==
    /\ events' = clear(events)
    /\ sinceClear' = 0
    /\ telemetryEvents' = [live |-> FALSE, arr |-> <<>>]
    /\ stats' = [totalEvents |-> 0, visibleRows |-> 0, selectedRows |-> stats.selectedRows]
    /\ last' = Op("clearTelemetry", "none", [none |-> TRUE], NoEvent, FALSE)
    /\ pre' = events
    /\ UNCHANGED <<now, ticks, uuids, emitted, sent, gridApi, scrollTimeoutRef,
                   timers, timerIds, gridVars, heldVars, lifeVars>>

\* clearTelemetry()
clearTelemetry ==
    /\ events' = clear(events)
    /\ sinceClear' = 0
    /\ telemetryEvents' = [live |-> FALSE, arr |-> <<>>]
    /\ stats' = [totalEvents |-> 0, visibleRows |-> 0, selectedRows |-> 0]
    /\ last' = Op("clearTelemetry", "none", [none |-> TRUE], NoEvent, FALSE)
    /\ pre' = events
    /\ UNCHANGED <<now, ticks, uuids, emitted, sent, gridApi, scrollTimeoutRef,
                   timers, timerIds, gridVars, heldVars, lifeVars>>

----------------------------------------------------------------------------
(* The grid and the panel around the handlers *)

\* the grid scrolls: another range of rows is displayed
ViewportChange(v) ==
    /\ gridApi = "api"
    /\ v \in Viewports(getDisplayedRowCount)
    /\ <<firstRow, lastRow>> # v
    /\ firstRow' = v[1]
    /\ lastRow' = v[2]
    /\ UNCHANGED <<now, ticks, serviceVars, histVars, appVars, heldVars, lifeVars,
                   rowData, filterModel, absent, selected, lastChange>>

\* the user sets a filter: the displayed rows change and the grid shows them
\* from the first one on
FilterChange(fm) ==
    /\ gridApi = "api"
    /\ fm # filterModel
    /\ filterModel' = fm
    /\ absent' = {}
    /\ LET n == Len(displayedRows(fm))
       IN  /\ firstRow' = 0
           /\ lastRow' = Min(4, n - 1)
    /\ UNCHANGED <<now, ticks, serviceVars, histVars, appVars, heldVars, lifeVars,
                   rowData, selected, lastChange>>

\* the row node at a displayed index comes to carry no data, or carries its
\* data again
RowDataChange(i) ==
    /\ gridApi = "api"
    /\ i \in 0..(getDisplayedRowCount - 1)
    /\ absent' = IF i \in absent THEN absent \ {i} ELSE absent \cup {i}
    /\ UNCHANGED <<now, ticks, serviceVars, histVars, appVars, heldVars, lifeVars,
                   rowData, filterModel, firstRow, lastRow, selected, lastChange>>

\* the effect of the panel marks the head of a list that has grown
grew(length, prev) == length > prev /\ length > 0

\* App renders: the panel receives the telemetryEvents of the App state, and
\* its effect on telemetryEvents runs: the cleanup of the previous run cancels
\* the timeout that run armed, then the head of a grown list is marked as new
\* and a timeout is armed to unmark it
PanelRender ==
    /\ held # telemetryEvents
    /\ held' = telemetryEvents
    /\ heldAt' = Contents(telemetryEvents)
    /\ LET evs == Contents(telemetryEvents)
       IN  IF grew(Len(evs), prevEventsLengthRef)
           THEN /\ newestEventId' = evs[1].id
                /\ panelTimers' = {[due |-> setTimeoutDue(now, NewStateMs)]}
                /\ prevEventsLengthRef' = Len(evs)
           ELSE /\ newestEventId' = newestEventId
                /\ panelTimers' = {}
                /\ prevEventsLengthRef' = IF Len(evs) = 0 THEN 0 ELSE prevEventsLengthRef
    /\ UNCHANGED <<now, ticks, serviceVars, histVars, appVars, gridVars, lifeVars>>

\* the timeout of the panel's effect fires: the "new" state is cleared
PanelTimeout(t) ==
    /\ t \in panelTimers
    /\ now >= t.due
    /\ newestEventId' = 0
    /\ panelTimers' = panelTimers \ {t}
    /\ UNCHANGED <<now, ticks, serviceVars, histVars, appVars, gridVars, lifeVars,
                   held, heldAt, prevEventsLengthRef>>

\* the App with every handler, on a grid of which the user selects and
\* deselects one row
NextApp ==
    \/ onGridReady
    \/ extractVisibleRowsData
    \/ extractSelectedRowsData
    \/ extractAllGridData
    \/ RowSelectionChange(5)
    \/ timerIds < MaxAppTimers /\ \E event \in ScrollEvents : onBodyScroll(event)
    \/ \E t \in timers : scrollTimeout(t)
    \/ clearTelemetry
    \/ PanelRender
    \/ ticks < MaxAppTicks /\ Tick(DebounceMs)

SpecApp == Init /\ [][NextApp]_vars

\* the viewport extractor on a grid whose filter, viewport and row nodes
\* change
NextViewport ==
    \/ onGridReady
    \/ extractVisibleRowsData
    \/ clearTelemetry
    \/ \E v \in {<<0, 4>>, <<3, 7>>, <<0, 14>>, <<0, 1>>} : ViewportChange(v)
    \/ \E fm \in FilterModels : FilterChange(fm)
    \/ \E i \in {0, 4, 7} : RowDataChange(i)

SpecViewport == Init /\ [][NextViewport]_vars

\* the service and the App state after onGridReady at time 0
GridReady ==
    LET data == [totalRows |-> Len(rowData),
                 columns |-> [i \in DOMAIN colDefs |-> colDefs[i].field],
                 gridVersion |-> "ag-grid-community"]
        r == send(<<>>, randomUUID(1), 0, "grid_initialized", data)
    IN  [events |-> r.events, emitted |-> <<r.event>>, uuids |-> 1, pre |-> <<>>,
         last |-> Op("onGridReady", "grid_initialized", data, r.event, FALSE)]

\* the same after the user has then selected the rows of the ids sel, one
\* after the other, at time 0
RECURSIVE Selecting(_)
Selecting(sel) ==
    IF sel = <<>> THEN GridReady
    ELSE LET s == Selecting(SubSeq(sel, 1, Len(sel) - 1))
             id == sel[Len(sel)]
             data == [rowId |-> id, rowData |-> rowById(id), selectionSource |-> "user_click"]
             r == send(s.events, randomUUID(s.uuids + 1), 0, "row_selected", data)
         IN  [events |-> r.events, emitted |-> Append(s.emitted, r.event),
              uuids |-> s.uuids + 1, pre |-> s.events,
              last |-> Op("onRowSelected", "row_selected", data, r.event, FALSE)]

\* the selections the grid holds when a behaviour begins
InitialSelections == {<<>>, <<1>>, <<5, 1>>}

\* the state after onGridReady and the selection of the rows sel, on a grid
\* of the rows rows
InitReady(rows, sel) ==
    /\ rowData = rows
    /\ filterModel = {}
    /\ absent = {}
    /\ firstRow = 0
    /\ lastRow = Min(4, Len(rows) - 1)
    /\ selected = sel
    /\ lastChange = IF sel = <<>>
                    THEN [id |-> 0, isSelected |-> FALSE, count |-> 0, selectedRows |-> 0, emitted |-> 0]
                    ELSE [id |-> sel[Len(sel)], isSelected |-> TRUE, count |-> Len(sel) - 1,
                          selectedRows |-> Len(sel) - 1, emitted |-> Len(sel)]
    /\ LET s == Selecting(sel)
       IN  /\ events = s.events
           /\ emitted = s.emitted
           /\ uuids = s.uuids
           /\ sinceClear = s.uuids
           /\ telemetryEvents = spread(s.events)
           /\ stats = [totalEvents |-> Len(s.events), visibleRows |-> 0,
                       selectedRows |-> Len(sel)]
           /\ last = s.last
           /\ pre = s.pre
    /\ gridApi = "api"
    /\ now = 0
    /\ sent = 0
    /\ ticks = 0
    /\ scrollTimeoutRef = 0
    /\ timers = {}
    /\ timerIds = 0
    /\ held = [live |-> FALSE, arr |-> <<>>]
    /\ heldAt = <<>>
    /\ newestEventId = 0
    /\ prevEventsLengthRef = 0
    /\ panelTimers = {}
    /\ mounted = TRUE
    /\ scrollLog = <<>>

\* the state after construction, or after onGridReady and the selection of
\* no, one or two rows
InitSelection ==
    \/ Init
    \/ \E sel \in InitialSelections : InitReady(generateSampleData, sel)

\* the selection handlers and the selection extractor on a grid of which
\* the user selects and deselects two rows
NextSelection ==
    \/ onGridReady
    \/ \E id \in SelectableIds : RowSelectionChange(id)
    \/ extractSelectedRowsData
    \/ clearTelemetry

SpecSelection == InitSelection /\ [][NextSelection]_vars

\* the rows a grid is given: the sample data, or no row
RowDataSets == {generateSampleData, <<>>}

\* the state after construction, or after onGridReady on a grid of the
\* sample rows or of no row, rows of it selected
InitFullState ==
    \/ Init
    \/ \E rows \in RowDataSets :
          \E sel \in {x \in InitialSelections : Len(x) <= Len(rows)} :
             InitReady(rows, sel)

\* the full-state extractor on a grid whose filter and viewport change
NextFullState ==
    \/ onGridReady
    \/ extractAllGridData
    \/ clearTelemetry
    \/ \E v \in {<<0, 4>>, <<3, 7>>, <<0, 14>>, <<0, 1>>} : ViewportChange(v)
    \/ \E fm \in FilterModels : FilterChange(fm)

SpecFullState == InitFullState /\ [][NextFullState]_vars

\* the state after construction, or after onGridReady
InitScroll ==
    \/ Init
    \/ InitReady(generateSampleData, <<>>)

\* the scroll handler and its timeouts, while time passes and the grid
\* displays other rows
NextScroll ==
    \/ onGridReady
    \/ \E event \in ScrollEvents : onBodyScroll(event)
    \/ \E t \in timers : scrollTimeout(t)
    \/ \E d \in {50, 250, DebounceMs} : Tick(d)
    \/ \E v \in {<<0, 4>>, <<3, 7>>} : ViewportChange(v)

SpecScroll == InitScroll /\ [][NextScroll]_vars

\* no scroll event arrives and nothing else happens until the timeout t is
\* due
Elapse(t) ==
    /\ t \in timers
    /\ now < t.due
    /\ now' = t.due
    /\ UNCHANGED <<ticks, serviceVars, histVars, appVars, gridVars, heldVars, lifeVars>>

\* the scroll handler and its timeouts: scroll events arrive in bursts
\* 50 ms apart or after a silence, as long as the event of their timeout can
\* still be sent within the bounds
NextDebounce ==
    \/ onGridReady
    \/ sent < MaxAppSends /\ \E event \in ScrollEvents : onBodyScroll(event)
    \/ \E t \in timers : scrollTimeout(t)
    \/ \E t \in timers : Elapse(t)
    \/ Tick(50)

\* the event loop: time passes, and a timeout that is due runs
SpecDebounce ==
    /\ InitScroll
    /\ [][NextDebounce]_vars
    /\ WF_vars(\E t \in timers : Elapse(t))
    /\ WF_vars(\E t \in timers : scrollTimeout(t))

\* the handlers of the user's actions and the timeout of the scroll handler
\* in any order
NextInterleave ==
    \/ onGridReady
    \/ extractVisibleRowsData
    \/ extractSelectedRowsData
    \/ RowSelectionChange(5)
    \/ timerIds < MaxAppTimers /\ \E event \in ScrollEvents : onBodyScroll(event)
    \/ \E t \in timers : scrollTimeout(t)
    \/ clearTelemetry
    \/ ticks < MaxAppTicks /\ Tick(DebounceMs)

SpecInterleave == InitScroll /\ [][NextInterleave]_vars

\* the scroll handler and its timeouts on an App that is unmounted at some
\* time: the grid and the timeouts of a mounted App act as before, the
\* timeouts go on after the unmount
NextTeardown ==
    \/ mounted /\ onGridReady
    \/ mounted /\ \E event \in ScrollEvents : onBodyScroll(event)
    \/ mounted /\ \E t \in timers : scrollTimeout(t)
    \/ mounted /\ \E v \in {<<0, 4>>, <<3, 7>>} : ViewportChange(v)
    \/ Unmount
    \/ \E t \in timers, outcome \in DestroyedApiOutcomes : scrollTimeoutDestroyed(t, outcome)
    \/ \E d \in {50, DebounceMs} : Tick(d)

SpecTeardown == InitScroll /\ [][NextTeardown]_vars

\* the payload of extractSelectedRowsData on a grid with no row selected
NoneSelectedData ==
    [selectedCount |-> 0, selectedRows |-> <<>>, selectedIds |-> <<>>,
     totalSelectedValue |-> 0]

\* the k-th event of a session of onGridReady and then runs of
\* extractSelectedRowsData with no row selected, all at time 0
SessionEvent(k) ==
    IF k = 1 THEN GridReady.emitted[1]
    ELSE TelemetryEvent(randomUUID(k), "selected_rows_extracted", toISOString(0),
                        NoneSelectedData)

\* the service after the n events of such a session: the buffer, newest
\* first and cut at MaxEvents, and the events constructed, oldest first
Session(n) ==
    [events |-> [i \in 1..Min(n, MaxEvents) |-> SessionEvent(n - i + 1)],
     emitted |-> [i \in 1..n |-> SessionEvent(i)]]

\* the lengths of the sessions a behaviour of the panel begins after: a fresh
\* one, one that leaves room for one more event, and two that fill the buffer
SessionLengths == {1, MaxEvents - 1, MaxEvents, MaxEvents + 1}

\* the App and the panel NewStateMs after a session of n events: the panel has
\* rendered the list, and the timeout of its effect has fired
InitSession(n) ==
    /\ InitGrid
    /\ LET s == Session(n)
       IN  /\ events = s.events
           /\ emitted = s.emitted
           /\ telemetryEvents = spread(s.events)
           /\ stats = [totalEvents |-> Len(s.events), visibleRows |-> 0, selectedRows |-> 0]
           /\ last = IF n = 1 THEN GridReady.last
                      ELSE Op("extractSelectedRowsData", "selected_rows_extracted",
                              NoneSelectedData, s.emitted[n], FALSE)
           /\ pre = Session(n - 1).events
           /\ held = spread(s.events)
           /\ heldAt = s.events
           /\ prevEventsLengthRef = Len(s.events)
    /\ uuids = n
    /\ sinceClear = n
    /\ gridApi = "api"
    /\ now = NewStateMs
    /\ sent = 0
    /\ ticks = 0
    /\ scrollTimeoutRef = 0
    /\ timers = {}
    /\ timerIds = 0
    /\ newestEventId = 0
    /\ panelTimers = {}
    /\ mounted = TRUE
    /\ scrollLog = <<>>

InitPanel == \E n \in SessionLengths : InitSession(n)

\* Session is what the handlers make: one more extractSelectedRowsData on the
\* buffer of Session(n) leaves the buffer of Session(n + 1)
SessionBySend ==
    \A n \in 1..MaxEvents :
        LET r == send(Session(n).events, randomUUID(n + 1), 0, "selected_rows_extracted",
                      NoneSelectedData)
        IN  /\ r.events = Session(n + 1).events
            /\ Append(Session(n).emitted, r.event) = Session(n + 1).emitted

\* the panel under the handlers that send and clear: the user extracts the
\* selected rows and clears, the App renders, time passes and the timeout of
\* the panel fires
NextPanel ==
    \/ extractSelectedRowsData
    \/ clearTelemetry
    \/ PanelRender
    \/ \E t \in panelTimers : PanelTimeout(t)
    \/ \E d \in {1000, NewStateMs} : Tick(d)

SpecPanel == InitPanel /\ [][NextPanel]_vars

----------------------------------------------------------------------------
(* The claims about the telemetry service, checked under SpecService *)

\* C1: after any sequence of send and clear calls the buffer holds at most
\* 50 events
C1_BufferBound == Len(events) <= MaxEvents

\* a send has run on a buffer that held 50 events, and 50 are held after it
C1_Witness ==
    /\ last.op = "send"
    /\ Len(pre) = MaxEvents
    /\ Len(events) = MaxEvents

\* C2: after n sends since construction or the last clear, the buffer holds
\* the min(n, 50) most recently sent events, newest first: buffer[0] is the
\* last event sent, buffer[49] the 50th most recent
C2_MostRecentNewestFirst ==
    LET m == Min(sinceClear, MaxEvents)
    IN  /\ Len(events) = m
        /\ \A i \in 1..m : events[i] = emitted[Len(emitted) - i + 1]

\* more than 50 sends with no clear at all
C2_Witness ==
    /\ sinceClear > MaxEvents
    /\ sinceClear = Len(emitted)
    /\ last.op = "send"

\* C3: send(eventType, data) returns an event with exactly that eventType
\* and data, and right after the call that event is the head of the buffer
C3_SendReturnsHead ==
    last.op = "send" =>
        /\ last.ret.eventType = last.eventType
        /\ last.ret.data = last.data
        /\ events # <<>>
        /\ events[1] = last.ret

\* a send of a row_selected event onto a full buffer
C3_Witness ==
    /\ last.op = "send"
    /\ last.eventType = "row_selected"
    /\ last.data = [tag |-> "b"]
    /\ Len(pre) = MaxEvents

\* C4: any two distinct events ever constructed by send have different ids,
\* also when one of them has been evicted or cleared since
C4_UniqueIds ==
    Cardinality({emitted[i].id : i \in DOMAIN emitted}) = Len(emitted)

\* events were evicted, the buffer was cleared, and an event was sent after
C4_Witness ==
    /\ Len(emitted) = MaxEvents + 2
    /\ sinceClear = 1
    /\ last.op = "send"

\* C5: the buffer being newest first, the timestamp of an event is not before
\* the timestamp of the event behind it, the ISO strings compared as strings
\* (the order of strings is transitive, so this orders every pair i < j)
C5_TimestampsOrdered ==
    \A i \in 1..(Len(events) - 1) :
        StrLeq(events[i + 1].timestamp, events[i].timestamp)

\* a full buffer that holds events of three different instants
C5_Witness ==
    /\ Len(events) = MaxEvents
    /\ Cardinality({events[i].timestamp : i \in DOMAIN events}) = 3

\* C6: after clear the buffer is empty, whatever it held; a clear of the
\* buffer a clear has left (the empty one) leaves it as it is; a send onto
\* the buffer a clear has left makes a buffer of exactly that event
C6_ClearEmpties ==
    /\ last.op = "clear" => events = <<>>
    /\ (last.op = "clear" /\ pre = clear(pre)) => events = pre
    /\ (last.op = "send" /\ sinceClear = 1) => events = <<last.ret>>

\* a clear of a full buffer
C6_Witness ==
    /\ last.op = "clear"
    /\ Len(pre) = MaxEvents
    /\ events = <<>>

\* the ids of the events of a buffer
Ids(evs) == {evs[i].id : i \in DOMAIN evs}

\* C8: by an operation, no event of the buffer is modified and the events
\* that stay keep their relative order (the events of the old buffer that
\* are still there are, in order, the events of the new buffer that were
\* there before), and an event leaves only as the tail of a buffer of 50 on
\* a send, or on a clear
C8_ImmutableUntilEvicted ==
    LET old == pre
        oldIds == Ids(old)
        newIds == Ids(events)
        gone == {i \in DOMAIN old : old[i].id \notin newIds}
    IN  /\ SelectSeq(old, LAMBDA e : e.id \in newIds)
              = SelectSeq(events, LAMBDA e : e.id \in oldIds)
        /\ \/ gone = {}
           \/ last.op = "clear" /\ events = <<>>
           \/ last.op = "send" /\ Len(old) = MaxEvents /\ gone = {MaxEvents}

\* a send has evicted the tail and every other event has moved back by one
C8_Witness ==
    /\ last.op = "send"
    /\ Len(pre) = MaxEvents
    /\ pre[MaxEvents] \notin Range(events)
    /\ \A i \in 1..(MaxEvents - 1) : events[i + 1] = pre[i]

----------------------------------------------------------------------------
(* The claims about the App, checked under SpecApp and SpecViewport *)

\* C7: consumers get copies of the buffer, never the live array: the array
\* in the App state and the array the panel has received are arrays of their
\* own, and the panel's array still shows what it showed when the panel
\* received it, whatever has been sent or cleared since
C7_SnapshotsAreCopies ==
    /\ ~telemetryEvents.live
    /\ ~held.live
    /\ Contents(held) = heldAt

\* the panel holds a snapshot with events in it and the buffer has changed
\* since by a send
C7_Witness ==
    /\ heldAt # <<>>
    /\ Len(events) > Len(heldAt)
    /\ Contents(held) = heldAt

\* the handlers that return at once when there is no gridApi
GuardedHandlers ==
    {"extractVisibleRowsData", "extractSelectedRowsData", "extractAllGridData",
     "onBodyScroll"}

\* C9: while gridApi is null, a call of the viewport, selection or full-state
\* extractor or of the scroll handler sends no event, throws nothing, arms
\* no timer and leaves the buffer, the displayed events and the statistics
\* as they are
C9_NoOpWhenUnavailable ==
    [][ (gridApi = "null" /\ last'.op \in GuardedHandlers) =>
            /\ ~last'.threw
            /\ UNCHANGED <<events, emitted, uuids, telemetryEvents, stats,
                           timers, scrollTimeoutRef, timerIds>> ]_vars

\* the scroll handler has run without a gridApi
C9_Witness ==
    /\ gridApi = "null"
    /\ last.op = "onBodyScroll"
    /\ timers = {}
    /\ events = <<>>

\* the data of the rows the grid displays at the indices first..last, in
\* ascending order, the indices without row data left out
rowsInRange(first, lastIndex) ==
    LET indices == [k \in 1..(lastIndex - first + 1) |-> first + k - 1]
        present == SelectSeq(indices,
                     LAMBDA i : i \in 0..(getDisplayedRowCount - 1) /\ i \notin absent)
    IN  [k \in DOMAIN present |-> displayedRows(filterModel)[present[k] + 1]]

\* C10: on a grid that displays the range first..last, first <= last, the
\* viewport extractor sends one visible_rows_extracted event; its visibleRows
\* are the rows at first..last in ascending order without the absent ones,
\* visibleProductIds their ids in that order, visibleRowCount their number,
\* totalValue the sum of price * quantity over them; of the range 3..7 with
\* every row present these are 5 rows
C10_VisibleRowsOfRange ==
    [][ (last'.op = "extractVisibleRowsData" /\ uuids' # uuids /\ firstRow <= lastRow) =>
            LET d == last'.data
                rows == rowsInRange(firstRow, lastRow)
            IN  /\ emitted' = Append(emitted, last'.ret)
                /\ last'.ret.eventType = "visible_rows_extracted"
                /\ d.visibleRows = rows
                /\ d.visibleProductIds = [k \in DOMAIN rows |-> rows[k].id]
                /\ d.viewport.visibleRowCount = Len(rows)
                /\ d.totalValue = SumSeq([k \in DOMAIN rows |-> rows[k].price * rows[k].quantity])
                /\ (firstRow = 3 /\ lastRow = 7 /\ absent = {}) =>
                       /\ Len(d.visibleRows) = 5
                       /\ d.visibleProductIds =
                            [k \in 1..5 |-> displayedRows(filterModel)[3 + k].id] ]_vars

\* the extractor has run on the range 3..7 of the unfiltered grid, every row
\* present: the rows with the ids 4..8
C10_Witness ==
    /\ last.op = "extractVisibleRowsData"
    /\ last.ret.eventType = "visible_rows_extracted"
    /\ last.data.viewport = [firstRowIndex |-> 3, lastRowIndex |-> 7, visibleRowCount |-> 5]
    /\ last.data.visibleProductIds = <<4, 5, 6, 7, 8>>
    /\ events[1] = last.ret

----------------------------------------------------------------------------
(* The claims about the extractors *)

\* C11: when the grid reports first > last (no rows are displayed), the
\* viewport extractor still sends a visible_rows_extracted event, and in it
\* visibleRows and visibleProductIds are empty, visibleRowCount is 0 and
\* totalValue is 0
C11_EmptyViewport ==
    [][ (last'.op = "extractVisibleRowsData" /\ last' # last
            /\ gridApi # "null" /\ firstRow > lastRow) =>
            LET d == last'.data
            IN  /\ emitted' = Append(emitted, last'.ret)
                /\ events'[1] = last'.ret
                /\ last'.ret.eventType = "visible_rows_extracted"
                /\ d.visibleRows = <<>>
                /\ d.visibleProductIds = <<>>
                /\ d.viewport.visibleRowCount = 0
                /\ d.totalValue = 0 ]_vars

\* the extractor has run on a grid whose filter leaves no row to display
C11_Witness ==
    /\ last.op = "extractVisibleRowsData"
    /\ last.ret.eventType = "visible_rows_extracted"
    /\ getDisplayedRowCount = 0
    /\ last.data.viewport = [firstRowIndex |-> 0, lastRowIndex |-> -1, visibleRowCount |-> 0]
    /\ events[1] = last.ret

\* C12: the selection extractor sends one selected_rows_extracted event;
\* its selectedCount is the number of rows the grid reports selected at
\* that moment, selectedRows and selectedIds are those rows and their ids in
\* the grid's order, totalSelectedValue the sum of price * quantity over
\* them; of no selected row these are 0, empty lists and 0
C12_SelectedRowsExtracted ==
    [][ (last'.op = "extractSelectedRowsData" /\ last' # last /\ gridApi # "null") =>
            LET d == last'.data
                rows == [i \in DOMAIN selected |-> rowById(selected[i])]
            IN  /\ emitted' = Append(emitted, last'.ret)
                /\ events'[1] = last'.ret
                /\ last'.ret.eventType = "selected_rows_extracted"
                /\ d.selectedCount = Len(selected)
                /\ d.selectedRows = rows
                /\ d.selectedIds = selected
                /\ d.totalSelectedValue =
                      SumSeq([i \in DOMAIN rows |-> rows[i].price * rows[i].quantity])
                /\ selected = <<>> =>
                       /\ d.selectedCount = 0
                       /\ d.selectedRows = <<>>
                       /\ d.selectedIds = <<>>
                       /\ d.totalSelectedValue = 0 ]_vars

\* the extractor has run with the rows 5 and 1 selected, in that order:
\* 1395 * 5 + 2499 * 12 = 36963
C12_Witness ==
    /\ last.op = "extractSelectedRowsData"
    /\ last.ret.eventType = "selected_rows_extracted"
    /\ last.data.selectedIds = <<5, 1>>
    /\ last.data.selectedCount = 2
    /\ last.data.totalSelectedValue = 36963
    /\ events[1] = last.ret

\* C13: the full-state extractor goes over every row of the grid, displayed
\* or not, and sends full_grid_state_extracted with totalRows the number of
\* rows, totalInventoryValue the sum of price * quantity over all rows,
\* inStockCount the number of rows in stock and outOfStockCount the number
\* of rows not in stock; on the 15 sample rows, whatever the filter, the
\* viewport and the selection, these are 12, 3 and the sum 119014
C13_FullStateOfEveryRow ==
    [][ (last'.op = "extractAllGridData" /\ last' # last /\ gridApi # "null") =>
            LET d == last'.data
            IN  /\ emitted' = Append(emitted, last'.ret)
                /\ last'.ret.eventType = "full_grid_state_extracted"
                /\ d.allData = rowData
                /\ d.gridMetadata.totalRows = Len(rowData)
                /\ d.aggregations.totalInventoryValue =
                      SumSeq([i \in DOMAIN rowData |-> rowData[i].price * rowData[i].quantity])
                /\ d.aggregations.inStockCount =
                      Cardinality({i \in DOMAIN rowData : rowData[i].inStock})
                /\ d.aggregations.outOfStockCount =
                      Cardinality({i \in DOMAIN rowData : ~rowData[i].inStock})
                /\ rowData = generateSampleData =>
                       /\ d.gridMetadata.totalRows = 15
                       /\ d.aggregations.inStockCount = 12
                       /\ d.aggregations.outOfStockCount = 3
                       /\ d.aggregations.totalInventoryValue = 119014 ]_vars

\* the extractor has run on the sample rows while the filter displays two
\* of them, the viewport has moved and a row is selected
C13_Witness ==
    /\ last.op = "extractAllGridData"
    /\ last.ret.eventType = "full_grid_state_extracted"
    /\ last.data.gridMetadata = [totalRows |-> 15, displayedRows |-> 2, selectedRows |-> 1]
    /\ last.data.viewport = [firstRow |-> 0, lastRow |-> 1]
    /\ last.data.aggregations.inStockCount = 12
    /\ events[1] = last.ret

\* C14: the full-state extractor on a grid of no rows sends
\* full_grid_state_extracted with an avgPrice that is a defined value, not
\* the result of 0 / 0, and with totalInventoryValue, inStockCount and
\* outOfStockCount 0
C14_AvgPriceDefinedOfNoRows ==
    (/\ last.op = "extractAllGridData"
     /\ last.ret.eventType = "full_grid_state_extracted"
     /\ last.data.gridMetadata.totalRows = 0) =>
        /\ last.data.aggregations.avgPrice.kind # "NaN"
        /\ last.data.aggregations.totalInventoryValue = 0
        /\ last.data.aggregations.inStockCount = 0
        /\ last.data.aggregations.outOfStockCount = 0

----------------------------------------------------------------------------
(* The claims about the scroll handler, checked under SpecScroll *)

\* the grid_scrolled events sent so far, oldest first
GridScrolled == SelectSeq(emitted, LAMBDA e : e.eventType = "grid_scrolled")

\* the scroll events that end a burst: the last one, and every one that the
\* next one follows by 300 ms or more
BurstEnds ==
    {i \in DOMAIN scrollLog :
        i = Len(scrollLog) \/ scrollLog[i + 1].at - scrollLog[i].at >= DebounceMs}

\* the grid_scrolled events sent in the silence after the burst that ends
\* with the i-th scroll event: 300 ms after it or later, and not after the
\* next scroll event
FiredAfter(i) ==
    {k \in DOMAIN GridScrolled :
        /\ StrLeq(toISOString(scrollLog[i].at + DebounceMs), GridScrolled[k].timestamp)
        /\ i < Len(scrollLog) =>
               StrLeq(GridScrolled[k].timestamp, toISOString(scrollLog[i + 1].at))}

\* C15: a burst of N >= 1 scroll events, each less than 300 ms after the
\* one before, sends no grid_scrolled event while it lasts and exactly one
\* in the silence after it, 300 ms after its last scroll event and not
\* earlier: every grid_scrolled event lies in the silence after a burst, no
\* silence holds two, and after the last scroll event either its timeout is
\* armed for 300 ms after it or its one event has been sent and no timeout
\* is armed
C15_DebounceCoalescing ==
    /\ \A k \in DOMAIN GridScrolled : \E i \in BurstEnds : k \in FiredAfter(i)
    /\ \A i \in BurstEnds : Cardinality(FiredAfter(i)) <= 1
    /\ scrollLog # <<>> =>
          LET n == Len(scrollLog)
          IN  IF FiredAfter(n) = {}
              THEN \E t \in timers : t.due = scrollLog[n].at + DebounceMs
              ELSE timers = {}

\* two scroll events 50 ms apart, and 300 ms after the second one the one
\* grid_scrolled event of the burst has been sent
C15_Witness ==
    /\ Len(scrollLog) = 2
    /\ scrollLog[2].at - scrollLog[1].at = 50
    /\ now = scrollLog[2].at + DebounceMs
    /\ last.op = "scrollTimeout"
    /\ Len(GridScrolled) = 1
    /\ events[1] = GridScrolled[1]

\* C16: at most one timeout of the scroll handler is armed at any time: a
\* scroll event that arrives while one is armed cancels it before the new
\* one is armed, the armed one is the one scrollTimeoutRef holds, and there
\* are never more grid_scrolled events than bursts of scroll events
C16_OneTimerArmed ==
    /\ Cardinality(timers) <= 1
    /\ \A t \in timers : t.id = scrollTimeoutRef /\ t.id = Len(scrollLog)
    /\ Len(GridScrolled) <= Cardinality(BurstEnds)

\* a second scroll event has arrived while the timeout of the first one was
\* armed, and one timeout is armed
C16_Witness ==
    /\ Len(scrollLog) = 2
    /\ scrollLog[2].at < scrollLog[1].at + DebounceMs
    /\ GridScrolled = <<>>
    /\ Cardinality(timers) = 1
    /\ scrollTimeoutRef = 2

\* C17: the grid_scrolled event sent when the timeout fires carries the
\* first and last displayed row index the grid reports at that time, not
\* those of the time of the scroll event, visibleRowCount = last - first + 1
\* of them, and the direction and the top and left offsets of the last
\* scroll event, the one that armed the timeout
C17_ScrolledPayload ==
    [][ (last'.op = "scrollTimeout" /\ uuids' # uuids) =>
            LET d == last'.data
                e == scrollLog[Len(scrollLog)].event
            IN  /\ last'.ret.eventType = "grid_scrolled"
                /\ d.viewport.firstRow = firstRow
                /\ d.viewport.lastRow = lastRow
                /\ d.viewport.visibleRowCount = lastRow - firstRow + 1
                /\ d.scrollDirection = e.direction
                /\ d.scrollPosition = [top |-> e.top, left |-> e.left] ]_vars

\* the timeout has fired after a vertical and then a horizontal scroll
\* event, the grid displaying another range than at the time of either
C17_Witness ==
    /\ last.op = "scrollTimeout"
    /\ last.ret.eventType = "grid_scrolled"
    /\ Len(scrollLog) = 2
    /\ scrollLog[1].event.direction = "vertical"
    /\ scrollLog[2].event.direction = "horizontal"
    /\ last.data.scrollDirection = "horizontal"
    /\ scrollLog[2].firstRow = 0
    /\ last.data.viewport = [firstRow |-> 3, lastRow |-> 7, visibleRowCount |-> 5]

\* C18: when the App is unmounted while a timeout of the scroll handler is
\* pending, the timeout is cancelled: after the unmount no grid_scrolled
\* event is sent and that timeout does not change the buffer
C18_TeardownCancelsTimer ==
    [][ ~mounted => (emitted' = emitted /\ events' = events) ]_vars

----------------------------------------------------------------------------
(* The claims about the selection handler, checked under SpecSelection *)

\* this step deselects the row whose selection was the last selection
\* change before it
DeselectsLastSelected ==
    /\ selected' # selected
    /\ lastChange.isSelected
    /\ lastChange.id \in Range(selected)
    /\ lastChange.id \notin Range(selected')

\* of the selection of a row and this step, its deselection: one row_selected
\* event has been sent since before the selection, by the selection, with
\* the id and the data of the row and the source "user_click", and none by
\* the deselection
OneRowSelectedEvent ==
    LET since == SubSeq(emitted', lastChange.emitted + 1, Len(emitted'))
        rs == SelectSeq(since, LAMBDA e : e.eventType = "row_selected")
    IN  /\ Len(rs) = 1
        /\ since[1] = rs[1]
        /\ rs[1].data = [rowId |-> lastChange.id, rowData |-> rowById(lastChange.id),
                         selectionSource |-> "user_click"]
        /\ emitted' = emitted
        /\ events' = events

\* C19 as claimed: from any reachable state, the selection of an unselected
\* row A and then its deselection, with no other selection change between
\* them, send exactly one row_selected event, for the selection, and the
\* selected-rows statistic after the deselection has the value it had
\* before the selection
C19_SelectionAsymmetryAnyState ==
    [][ DeselectsLastSelected =>
            /\ OneRowSelectedEvent
            /\ stats'.selectedRows = lastChange.selectedRows ]_vars

\* C19 amended: the selection of an unselected row A and then its
\* deselection, with no other selection change between them, send exactly
\* one row_selected event, for the selection, and the selected-rows
\* statistic after the deselection is the number of rows the grid reported
\* selected before the selection; that is the value the statistic had before
\* the selection when the statistic was up to date then, which it is not
\* after a clear made while rows are selected
C19_SelectionAsymmetry ==
    [][ DeselectsLastSelected =>
            /\ OneRowSelectedEvent
            /\ Len(selected') = lastChange.count
            /\ stats'.selectedRows = lastChange.count
            /\ lastChange.selectedRows = lastChange.count =>
                   stats'.selectedRows = lastChange.selectedRows ]_vars

\* row 5 has been selected and deselected again, after a clear made while
\* row 1 was selected: the buffer holds the one row_selected event of row 5,
\* and the statistic counts the one selected row
C19_Witness ==
    /\ last.op = "onRowSelected"
    /\ lastChange.id = 5
    /\ ~lastChange.isSelected
    /\ selected = <<1>>
    /\ sinceClear = 1
    /\ events[1].eventType = "row_selected"
    /\ events[1].data.rowId = 5
    /\ stats.selectedRows = 1

\* C20: at every change of the selection of a row the grid reports, to
\* selected or to deselected, the selected-rows statistic is set to the
\* number of rows the grid then reports selected
C20_SelectedCountRefreshed ==
    [][ selected' # selected => stats'.selectedRows = Len(selected') ]_vars

\* a row has been deselected while another one stays selected, and the
\* statistic, which was 0 after a clear, is the number of selected rows
C20_Witness ==
    /\ last.op = "onRowSelected"
    /\ ~lastChange.isSelected
    /\ lastChange.selectedRows = 0
    /\ lastChange.count = 2
    /\ selected = <<5>>
    /\ stats.selectedRows = 1

----------------------------------------------------------------------------
(* The claims about the App as a whole *)

\* the events of the type eventType among evs
OfType(evs, eventType) == SelectSeq(evs, LAMBDA e : e.eventType = eventType)

\* C21: when the grid becomes ready, exactly one grid_initialized event is
\* sent, with the number of rows of the dataset and the list of the column
\* identifiers, and from then on the gridApi is available to the extractors
C21_GridInitializedOnce ==
    [][ /\ (last'.op = "onGridReady" /\ last' # last) =>
              /\ gridApi = "null"
              /\ gridApi' = "api"
              /\ OfType(emitted, "grid_initialized") = <<>>
              /\ emitted' = Append(emitted, last'.ret)
              /\ events'[1] = last'.ret
              /\ last'.ret.eventType = "grid_initialized"
              /\ last'.data.totalRows = Len(rowData)
              /\ last'.data.columns =
                    <<"id", "product", "category", "price", "quantity", "inStock",
                      "lastUpdated">>
        /\ gridApi # "null" =>
              /\ gridApi' = gridApi
              /\ Len(OfType(emitted', "grid_initialized")) = 1 ]_vars

\* the grid has become ready and the viewport extractor has then run: the
\* first event sent is the one grid_initialized event, of 15 rows
C21_Witness ==
    /\ gridApi = "api"
    /\ last.op = "extractVisibleRowsData"
    /\ last.ret.eventType = "visible_rows_extracted"
    /\ Len(emitted) = 2
    /\ emitted[1].eventType = "grid_initialized"
    /\ emitted[1].data.totalRows = 15

\* C22: the scroll tracker goes IDLE -> PENDING -> EMIT -> IDLE: once a
\* scroll event has armed the timeout and scroll events stop, the timeout
\* fires in the end, one grid_scrolled event is sent after the last scroll
\* event and no timeout is armed; a scroll event that arrives when none is
\* armed arms exactly one, due 300 ms later, and leads to one more event in
\* the same way
C22_PendingLeadsToIdle ==
    /\ (timers # {}) ~>
          (/\ timers = {}
           /\ last.op = "scrollTimeout"
           /\ Cardinality(FiredAfter(Len(scrollLog))) = 1)
    /\ [][ (timers = {} /\ scrollLog' # scrollLog) =>
              /\ Cardinality(timers') = 1
              /\ \A t \in timers' : t.due = now + DebounceMs ]_vars

\* a scroll event, its grid_scrolled event, and after that a later scroll
\* event and its own grid_scrolled event; no timeout is armed
C22_Witness ==
    /\ Len(scrollLog) = 2
    /\ scrollLog[2].at >= scrollLog[1].at + DebounceMs
    /\ Len(GridScrolled) = 2
    /\ last.op = "scrollTimeout"
    /\ timers = {}

\* the event type each emitting handler sends
EmittedBy ==
    [onGridReady |-> "grid_initialized",
     extractVisibleRowsData |-> "visible_rows_extracted",
     extractSelectedRowsData |-> "selected_rows_extracted",
     extractAllGridData |-> "full_grid_state_extracted",
     onRowSelected |-> "row_selected",
     scrollTimeout |-> "grid_scrolled"]

----------------------------------------------------------------------------
(* The claims about the panel, checked under SpecPanel *)

\* C24: every newly emitted event is marked as new in the panel: when the
\* panel renders after a send, whatever the length of the buffer was before
\* that send, newestEventId becomes the id of the event at the head of the
\* list it displays
C24_NewEventMarked ==
    [][ (held' # held /\ last.ret # NoEvent)
            => newestEventId' = Contents(held')[1].id ]_vars

\* C25: the "new" state is cleared after the animation: whenever newestEventId
\* is set, the timeout that resets it to null 2500 ms after the mark is
\* armed, whatever sends and clears have run since the mark
C25_NewStateCleared ==
    newestEventId # 0
        => \E t \in panelTimers : t.due <= now + NewStateMs

\* C26: after every send and every clear made through the App the event list
\* of the App state is the buffer, in its order, and totalEvents is the length
\* of the buffer: at most 50, not the number of events of the session
C26_ListIsBuffer ==
    /\ Contents(telemetryEvents) = events
    /\ ~telemetryEvents.live
    /\ stats.totalEvents = Len(events)
    /\ stats.totalEvents <= MaxEvents

\* a send has run on a full buffer in a session of more than 50 events
C26_Witness ==
    /\ last.op = "extractSelectedRowsData"
    /\ sent > 0
    /\ Len(pre) = MaxEvents
    /\ Len(emitted) > MaxEvents
    /\ stats.totalEvents = MaxEvents
    /\ telemetryEvents.arr[1] = last.ret

----------------------------------------------------------------------------
(* The claims about the events of the handlers *)

\* C27: in every full_grid_state_extracted event the in-stock and the
\* out-of-stock counts add up to gridMetadata.totalRows, which is the length
\* of allData
C27_StockCountsPartition ==
    \A i \in DOMAIN emitted :
        emitted[i].eventType = "full_grid_state_extracted"
            => LET d == emitted[i].data
               IN  /\ d.aggregations.inStockCount + d.aggregations.outOfStockCount
                         = d.gridMetadata.totalRows
                   /\ d.gridMetadata.totalRows = Len(d.allData)

\* the full state of the 15 sample rows has been extracted under a filter
\* that displays two of them: 12 rows are in stock, 3 are not
C27_Witness ==
    /\ last.op = "extractAllGridData"
    /\ last.ret.eventType = "full_grid_state_extracted"
    /\ last.ret.data.gridMetadata.displayedRows = 2
    /\ last.ret.data.aggregations.inStockCount = 12
    /\ last.ret.data.aggregations.outOfStockCount = 3
    /\ Len(last.ret.data.allData) = 15

\* C28: clearTelemetry neither cancels nor changes a pending timeout of the
\* scroll handler: a clear leaves the armed timeouts and scrollTimeoutRef as
\* they are, and the timeout that fires on the buffer the clear has emptied
\* fires no sooner than 300 ms after its scroll event and leaves its
\* grid_scrolled event as the only entry of the buffer
C28_ClearKeepsTimer ==
    /\ [][ last'.op = "clearTelemetry"
               => UNCHANGED <<timers, scrollTimeoutRef, timerIds>> ]_vars
    /\ [][ (timers' # timers /\ last'.op = "scrollTimeout" /\ ~last'.threw
                /\ events = <<>>)
               => /\ now >= scrollLog[Len(scrollLog)].at + DebounceMs
                  /\ last'.ret.eventType = "grid_scrolled"
                  /\ last'.ret.data.scrollDirection = scrollLog[Len(scrollLog)].event.direction
                  /\ events' = <<last'.ret>> ]_vars

\* a scroll event at time 0 has armed the timeout, a row has been selected
\* 300 ms later, the buffer has then been cleared, and the timeout has fired:
\* its event is the only entry
C28_Witness ==
    /\ last.op = "scrollTimeout"
    /\ Len(scrollLog) = 1
    /\ scrollLog[1].at = 0
    /\ Len(emitted) = 3
    /\ emitted[2].eventType = "row_selected"
    /\ emitted[2].timestamp = toISOString(DebounceMs)
    /\ emitted[3].eventType = "grid_scrolled"
    /\ sinceClear = 1
    /\ events = <<emitted[3]>>
    /\ timers = {}

\* the event types of the extractions and of the scroll handler
GridEventTypes ==
    {"visible_rows_extracted", "selected_rows_extracted", "full_grid_state_extracted",
     "grid_scrolled"}

\* C29: no visible_rows_extracted, selected_rows_extracted,
\* full_grid_state_extracted or grid_scrolled event is emitted before
\* grid_initialized: each such event follows a grid_initialized event in the
\* order of emission
C29_InitializedFirst ==
    \A i \in DOMAIN emitted :
        emitted[i].eventType \in GridEventTypes
            => \E j \in 1..(i - 1) : emitted[j].eventType = "grid_initialized"

\* the grid has become ready and the timeout of a scroll event has then sent
\* its event
C29_Witness ==
    /\ Len(emitted) = 2
    /\ emitted[1].eventType = "grid_initialized"
    /\ emitted[2].eventType = "grid_scrolled"
    /\ last.op = "scrollTimeout"

\* C30: clearTelemetry sets totalEvents, visibleRows and selectedRows to 0 and
\* leaves the rows, the selection and the viewport of the grid as they are;
\* so the selected-rows statistic is 0 while the grid has selected rows, and
\* it stays 0 until the next change of the selection or the next extraction
\* of the selected rows, which sets it to the number of selected rows
C30_ClearResetsStatsOnly ==
    /\ [][ last'.op = "clearTelemetry"
               => /\ stats' = [totalEvents |-> 0, visibleRows |-> 0, selectedRows |-> 0]
                  /\ UNCHANGED <<rowData, filterModel, absent, selected, firstRow, lastRow>> ]_vars
    /\ [][ (stats.selectedRows = 0 /\ selected # <<>> /\ stats'.selectedRows # 0)
               => /\ last'.op \in {"onRowSelected", "extractSelectedRowsData"}
                  /\ stats'.selectedRows = Len(selected') ]_vars

\* the buffer has been cleared while a row is selected: the statistics are 0,
\* the row is still selected
C30_Witness ==
    /\ last.op = "clearTelemetry"
    /\ pre # <<>>
    /\ selected = <<5>>
    /\ stats = [totalEvents |-> 0, visibleRows |-> 0, selectedRows |-> 0]
    /\ firstRow = 0
    /\ lastRow = 4

====
